---------------------------- MODULE Spec2Model ----------------------------
(***************************************************************************)
(* Model of the parsefy-js client: schema translation, file normalization, *)
(* response mapping and the request executor (timeout, 429 retry).         *)
(*                                                                         *)
(* Encoding of JavaScript values:                                          *)
(*   - a string that the code inspects character by character (a file     *)
(*     name) is a sequence of one-character strings;                       *)
(*   - null is the record Null, undefined is the record Undefined;         *)
(*   - an object is a function from its keys; a key whose value is         *)
(*     undefined is left out of the domain (reading it yields undefined    *)
(*     either way).                                                        *)
(***************************************************************************)
EXTENDS Integers, Sequences, FiniteSets, TLC

VARIABLES
    env,        \* the host environment: which globals exist
    client,     \* the Parsefy instance: apiKey, baseUrl, timeout, maxRetries
    pc,         \* per call: where extract/makeRequestWithRetry/makeRequest is
    options,    \* per call: the ExtractOptions extract was called with
    attempt,    \* per call: the attempt parameter of makeRequestWithRetry
    formData,   \* per call: the multipart payload built by extract
    timerArmed, \* per call: the setTimeout of makeRequest is pending
    overdue,    \* per call: the configured timeout has elapsed in this attempt
    response,   \* per call: the Response fetch resolved with, body not yet read
    backoffMs,  \* per call: the delay being awaited before the next attempt
    lastError,  \* per call: the error caught by makeRequestWithRetry
    outcome,    \* per call: what the promise returned by extract settled with
    nreq,       \* per call: number of fetch calls issued
    log,        \* per call: HTTP status received by each attempt, in order
    sent,       \* per call: the requests handed to fetch, in order
    fnName,     \* pure-function harness: which function is applied
    fnIn,       \* pure-function harness: its argument
    fnOut       \* pure-function harness: its result

callVars == <<pc, options, attempt, formData, timerArmed, overdue, response,
              backoffMs, lastError, outcome, nreq, log, sent>>
pureVars == <<fnName, fnIn, fnOut>>
vars == <<env, client, callVars, pureVars>>

Null == [t |-> "null"]
Undefined == [t |-> "undefined"]

\* ------------------------------------------------------------ constants

MAX_FILE_SIZE == 10 * 1024 * 1024
DEFAULT_TIMEOUT == 60000
DEFAULT_BASE_URL == "https://api.parsefy.io"
MaxRetries == 3

PDF == "application/pdf"
DOCX == "application/vnd.openxmlformats-officedocument.wordprocessingml.document"
OCTET == "application/octet-stream"

\* MIME_TYPES: extension (as characters) -> MIME type
MIME_TYPES ==
    (<<".", "p", "d", "f">> :> PDF) @@ (<<".", "d", "o", "c", "x">> :> DOCX)

\* ------------------------------------------------------------ environments

\* isNode: process.versions.node is defined; hasBuffer / hasFile: the globals
\* Buffer / File are defined.
Node20 == [isNode |-> TRUE, hasBuffer |-> TRUE, hasFile |-> TRUE]
Node18 == [isNode |-> TRUE, hasBuffer |-> TRUE, hasFile |-> FALSE]
Browser == [isNode |-> FALSE, hasBuffer |-> FALSE, hasFile |-> TRUE]
\* A browser whose bundle supplies the Buffer global (a Node.js polyfill)
BrowserWithBuffer == [isNode |-> FALSE, hasBuffer |-> TRUE, hasFile |-> TRUE]
Envs == {Node20, Node18, Browser, BrowserWithBuffer}

isNode(e) == e.isNode

\* ------------------------------------------------------------ errors

NoError == [name |-> "none", code |-> "", statusCode |-> 0, message |-> "",
            response |-> Undefined]

\* new ParsefyError(message, code)
ParsefyError(message, code) ==
    [name |-> "ParsefyError", code |-> code, statusCode |-> 0,
     message |-> message, response |-> Undefined]

\* new APIError(message, statusCode, response): super(message) leaves code unset
APIError(message, statusCode, resp) ==
    [name |-> "APIError", code |-> "", statusCode |-> statusCode,
     message |-> message, response |-> resp]

\* new ExtractionError(message, code, metadata)
ExtractionError(message, code, metadata) ==
    [name |-> "ExtractionError", code |-> code, statusCode |-> 0,
     message |-> message, response |-> Undefined, metadata |-> metadata]

\* new ValidationError(message)
ValidationError(message) ==
    [name |-> "ValidationError", code |-> "", statusCode |-> 0,
     message |-> message, response |-> Undefined]

\* An error thrown by the platform, not by the SDK (TypeError, ReferenceError,
\* a node:fs error, an error thrown by the schema library).
PlatformError(name, message) ==
    [name |-> name, code |-> "", statusCode |-> 0, message |-> message,
     response |-> Undefined]

Ok(v) == [ok |-> TRUE, value |-> v, error |-> NoError]
Throw(e) == [ok |-> FALSE, value |-> Undefined, error |-> e]

\* ------------------------------------------------------------ file normalizer

Upper == <<"A", "B", "C", "D", "E", "F", "O", "P", "T", "X">>
Lower == <<"a", "b", "c", "d", "e", "f", "o", "p", "t", "x">>

\* String.prototype.toLowerCase on one character
lowerChar(ch) ==
    IF \E i \in 1..Len(Upper) : Upper[i] = ch
    THEN Lower[CHOOSE i \in 1..Len(Upper) : Upper[i] = ch]
    ELSE ch

toLowerCase(s) == [i \in 1..Len(s) |-> lowerChar(s[i])]

\* filename.toLowerCase().match(/\.[^.]+$/)?.[0]: the suffix that starts at a
\* dot, has at least one character after it and no further dot; <<>> when the
\* pattern does not match.
extOf(filename) ==
    LET s == toLowerCase(filename)
        starts == {i \in 1..Len(s) :
                     /\ s[i] = "."
                     /\ i < Len(s)
                     /\ \A j \in (i+1)..Len(s) : s[j] # "."}
    IN IF starts = {} THEN <<>>
       ELSE SubSeq(s, CHOOSE i \in starts : TRUE, Len(s))

\* getMimeType: "" stands for null
getMimeType(filename) ==
    LET ext == extOf(filename)
    IN IF ext = <<>> THEN ""
       ELSE IF ext \in DOMAIN MIME_TYPES THEN MIME_TYPES[ext] ELSE ""

\* validateFileExtension: returns or throws
validateFileExtension(filename) ==
    IF getMimeType(filename) = ""
    THEN Throw(ValidationError("Unsupported file type. Supported types: .pdf, .docx"))
    ELSE Ok(Undefined)

\* Faulty variants of validateFileSize, against which the size properties are
\* tested: one lets an empty file through, one rejects a file of exactly the
\* limit.
validateFileSizeAcceptsEmpty(size) ==
    IF size > MAX_FILE_SIZE
    THEN Throw(ValidationError("File size exceeds maximum limit of 10MB"))
    ELSE Ok(Undefined)

validateFileSizeRejectsLimit(size) ==
    IF size = 0 THEN Throw(ValidationError("File is empty"))
    ELSE IF size >= MAX_FILE_SIZE
         THEN Throw(ValidationError("File size exceeds maximum limit of 10MB"))
         ELSE Ok(Undefined)

\* validateFileSize: returns or throws
validateFileSize(size) ==
    IF size = 0 THEN Throw(ValidationError("File is empty"))
    ELSE IF size > MAX_FILE_SIZE
         THEN Throw(ValidationError("File size exceeds maximum limit of 10MB"))
         ELSE Ok(Undefined)

\* A File or Blob: cls, name (<<>> for a Blob), size, type
FileObj(cls, name, size, type) ==
    [cls |-> cls, name |-> name, size |-> size, type |-> type]

\* bufferToFile(buffer, filename) in environment e
bufferToFile(e, size, filename) ==
    LET mimeType == IF getMimeType(filename) # "" THEN getMimeType(filename)
                    ELSE OCTET
    IN IF e.hasFile THEN FileObj("File", filename, size, mimeType)
       ELSE FileObj("Blob", <<>>, size, mimeType)

\* readFileFromPath(filePath): in.exists is fs.existsSync, in.name is
\* path.basename, in.readable is whether fs.readFileSync returns, in.size is
\* buffer.length
readFileFromPath(e, in) ==
    IF ~isNode(e)
    THEN Throw(ValidationError("File path strings are only supported in Node.js. Use File or Blob in the browser."))
    ELSE IF ~in.exists THEN Throw(ValidationError("File not found"))
    ELSE IF ~validateFileExtension(in.name).ok THEN validateFileExtension(in.name)
    ELSE IF ~in.readable THEN Throw(PlatformError("Error", "readFileSync failed"))
    ELSE IF ~validateFileSize(in.size).ok THEN validateFileSize(in.size)
    ELSE Ok([size |-> in.size, filename |-> in.name])

\* prepareFile(input) in environment e.  in.kind is what the typeof /
\* isBuffer / instanceof tests of the code see: "string", "buffer", "file",
\* "blob", or "other" for a value that is none of these.
prepareFile(e, in) ==
    IF in.kind = "string"
    THEN LET r == readFileFromPath(e, in)
         IN IF r.ok THEN Ok(bufferToFile(e, r.value.size, r.value.filename))
            ELSE r
    ELSE IF ~e.hasBuffer
    THEN Throw(PlatformError("ReferenceError", "Buffer is not defined"))
    ELSE IF in.kind = "buffer"
    THEN IF validateFileSize(in.size).ok
         THEN Ok(bufferToFile(e, in.size,
                   <<"d", "o", "c", "u", "m", "e", "n", "t", ".", "p", "d", "f">>))
         ELSE validateFileSize(in.size)
    ELSE IF ~e.hasFile
    THEN Throw(PlatformError("ReferenceError", "File is not defined"))
    ELSE IF in.kind = "file"
    THEN IF ~validateFileExtension(in.name).ok THEN validateFileExtension(in.name)
         ELSE IF ~validateFileSize(in.size).ok THEN validateFileSize(in.size)
         ELSE Ok(FileObj("File", in.name, in.size, in.type))
    ELSE IF in.kind = "blob"
    THEN IF ~validateFileSize(in.size).ok THEN validateFileSize(in.size)
         ELSE Ok(FileObj("Blob", <<>>, in.size, in.type))
    ELSE Throw(ValidationError("Invalid file input. Expected File, Blob, Buffer, or file path string."))


\* ------------------------------------------------------------ schema translator

\* A Zod schema: [kind |-> "string" | "number"], an array [kind |-> "array",
\* element |-> schema], or an object [kind |-> "object", shape |-> f] where f
\* maps each declared field to [optional |-> declared with .optional(),
\* schema |-> its schema].  [kind |-> "malformed"] is a value that is no schema.
FieldNames == {"a", "b"}
ZLeaf == {[kind |-> "string"], [kind |-> "number"]}
ZField(S) == [optional : BOOLEAN, schema : S]
ZObject(S) ==
    {[kind |-> "object", shape |-> f] :
        f \in UNION {[D -> ZField(S)] : D \in SUBSET FieldNames}}
ZArray(S) == {[kind |-> "array", element |-> s] : s \in S}
ZFlat == ZObject(ZLeaf)
ZInner == ZLeaf \cup ZFlat \cup ZArray(ZFlat)
ZodSchemas == ZObject(ZInner)
Malformed == [kind |-> "malformed"]

SchemaUrl == "http://json-schema.org/draft-07/schema#"

\* The object/array/leaf translation of the zod-to-json-schema library: an
\* object lists the fields not declared optional under "required" and drops
\* the key when that list is empty.
RECURSIVE parseDef(_)
parseDef(s) ==
    IF s.kind = "object"
    THEN LET req == {n \in DOMAIN s.shape : ~s.shape[n].optional}
             base == [type |-> "object",
                      properties |-> [n \in DOMAIN s.shape |->
                                        parseDef(s.shape[n].schema)],
                      additionalProperties |-> FALSE]
         IN IF req = {} THEN base ELSE base @@ ("required" :> req)
    ELSE IF s.kind = "array"
    THEN [type |-> "array", items |-> parseDef(s.element)]
    ELSE [type |-> s.kind]

\* zodToJsonSchema(schema, {$refStrategy: 'none', target: 'jsonSchema7'})
zodToJsonSchema(s) ==
    IF s = Malformed
    THEN Throw(PlatformError("Error", "zodToJsonSchema threw"))
    ELSE Ok(("$schema" :> SchemaUrl) @@ parseDef(s))

\* delete obj[key]
deleteKey(obj, key) == [k \in DOMAIN obj \ {key} |-> obj[k]]

\* Faulty variant of zodSchemaToJsonSchema: strips the top-level "required"
\* list together with "$schema".
zodSchemaToJsonSchemaStripsRequired(s) ==
    LET r == zodToJsonSchema(s)
    IN IF ~r.ok THEN r
       ELSE Ok(deleteKey(deleteKey(r.value, "$schema"), "required"))

\* zodSchemaToJsonSchema(schema)
zodSchemaToJsonSchema(s) ==
    LET r == zodToJsonSchema(s)
    IN IF ~r.ok THEN r
       ELSE IF "$schema" \in DOMAIN r.value
            THEN Ok(deleteKey(r.value, "$schema"))
            ELSE r

\* ------------------------------------------------------------ response mapper

has(obj, key) == key \in DOMAIN obj
\* obj[key] is neither undefined nor null (for a key that holds an object or
\* null; an array-valued key that is null is modelled as left out)
present(obj, key) == has(obj, key) /\ obj[key] # Null
Empty == [k \in {} |-> k]
\* {key2: obj[key]}, the key left out when the value is undefined
prop(key2, obj, key) == IF has(obj, key) THEN key2 :> obj[key] ELSE Empty

\* Faulty variant of the legacy defaults: an absent confidence block reads as
\* confidence 0.
DefaultMetaZeroScore ==
    [confidence_score |-> 0, field_confidence |-> <<>>, issues |-> <<>>]

DefaultMeta == [confidence_score |-> 100, field_confidence |-> <<>>, issues |-> <<>>]

\* Faulty variant of the field-confidence mapping: the records come out in
\* reverse order.
mapFieldConfidenceReversed(list) ==
    [i \in 1..Len(list) |->
        prop("field", list[Len(list) + 1 - i], "field")
        @@ prop("score", list[Len(list) + 1 - i], "score")
        @@ prop("reason", list[Len(list) + 1 - i], "reason")
        @@ prop("page", list[Len(list) + 1 - i], "page")
        @@ prop("text", list[Len(list) + 1 - i], "text")]

\* field_confidence.map((fc) => ({field, score, reason, page, text}))
mapFieldConfidence(list) ==
    [i \in 1..Len(list) |->
        prop("field", list[i], "field") @@ prop("score", list[i], "score")
        @@ prop("reason", list[i], "reason") @@ prop("page", list[i], "page")
        @@ prop("text", list[i], "text")]

\* Faulty variant of the metadata literal: the issues list is left out.
mapMetadataDropsIssues(metadata, meta) ==
    prop("processingTimeMs", metadata, "processing_time_ms")
    @@ prop("inputTokens", metadata, "input_tokens")
    @@ prop("outputTokens", metadata, "output_tokens")
    @@ prop("credits", metadata, "credits")
    @@ prop("fallbackTriggered", metadata, "fallback_triggered")
    @@ prop("confidenceScore", meta, "confidence_score")
    @@ ("fieldConfidence" :> mapFieldConfidence(meta.field_confidence))

\* The metadata object literal of transformResponse
mapMetadata(metadata, meta) ==
    prop("processingTimeMs", metadata, "processing_time_ms")
    @@ prop("inputTokens", metadata, "input_tokens")
    @@ prop("outputTokens", metadata, "output_tokens")
    @@ prop("credits", metadata, "credits")
    @@ prop("fallbackTriggered", metadata, "fallback_triggered")
    @@ prop("confidenceScore", meta, "confidence_score")
    @@ ("fieldConfidence" :> mapFieldConfidence(meta.field_confidence))
    @@ prop("issues", meta, "issues")

\* Faulty variant of transformResponse: reports error as null whenever the
\* body carries an object.
transformResponseHidesError(raw) ==
    IF raw = Null
    THEN Throw(PlatformError("TypeError", "Cannot read properties of null"))
    ELSE
    LET meta == IF present(raw, "_meta") THEN raw["_meta"] ELSE DefaultMeta
    IN IF ~present(raw, "metadata")
       THEN Throw(PlatformError("TypeError", "Cannot read properties of undefined"))
       ELSE IF ~has(meta, "field_confidence")
       THEN Throw(PlatformError("TypeError", "Cannot read properties of undefined"))
       ELSE Ok(prop("object", raw, "object")
               @@ ("metadata" :> mapMetadata(raw.metadata, meta))
               @@ (IF present(raw, "object") THEN "error" :> Null
                   ELSE prop("error", raw, "error")))

\* transformResponse(raw): the result, or the TypeError a property read of
\* undefined or null throws.  Scores are in hundredths (1.0 is 100).
transformResponse(raw) ==
    IF raw = Null
    THEN Throw(PlatformError("TypeError", "Cannot read properties of null"))
    ELSE
    LET meta == IF present(raw, "_meta") THEN raw["_meta"] ELSE DefaultMeta
    IN IF ~present(raw, "metadata")
       THEN Throw(PlatformError("TypeError", "Cannot read properties of undefined"))
       ELSE IF ~has(meta, "field_confidence")
       THEN Throw(PlatformError("TypeError", "Cannot read properties of undefined"))
       ELSE Ok(prop("object", raw, "object")
               @@ ("metadata" :> mapMetadata(raw.metadata, meta))
               @@ prop("error", raw, "error"))


\* ------------------------------------------------------------ inputs

FileNames ==
    {<<"a", ".", "p", "d", "f">>, <<"A", ".", "P", "D", "F">>,
     <<"b", ".", "d", "o", "c", "x">>, <<"B", ".", "D", "o", "c", "X">>,
     <<"c", ".", "t", "x", "t">>, <<"c">>, <<>>,
     <<"a", ".", "p", "d", "f", ".">>, <<".", "p", "d", "f">>,
     <<"a", ".", "t", "x", "t", ".", "p", "d", "f">>,
     <<"a", ".", "p", "d", "f", ".", "t", "x", "t">>}
FileSizes == {0, 1, MAX_FILE_SIZE - 1, MAX_FILE_SIZE, MAX_FILE_SIZE + 1}
BlobTypes == {"", PDF, DOCX, "text/plain"}

FileInput(kind, name, size, type, exists, readable) ==
    [kind |-> kind, name |-> name, size |-> size, type |-> type,
     exists |-> exists, readable |-> readable]

\* The values a caller can pass as `file` in environment e: a Buffer exists
\* only where the Buffer global does, a File only where the File global does.
FileInputs(e) ==
    {FileInput("string", n, s, "", TRUE, r) :
        n \in FileNames, s \in FileSizes, r \in BOOLEAN}
    \cup {FileInput("string", n, 0, "", FALSE, FALSE) : n \in FileNames}
    \cup (IF e.hasBuffer
          THEN {FileInput("buffer", <<>>, s, "", TRUE, TRUE) : s \in FileSizes}
          ELSE {})
    \cup (IF e.hasFile
          THEN {FileInput("file", n, s, t, TRUE, TRUE) :
                    n \in FileNames, s \in FileSizes, t \in BlobTypes}
          ELSE {})
    \cup {FileInput("blob", <<>>, s, t, TRUE, TRUE) : s \in FileSizes, t \in BlobTypes}
    \cup {FileInput("other", <<>>, 0, "", TRUE, TRUE)}

\* Wire responses (the decoded JSON body of a 2xx response).  A JSON value
\* that is no object (a number, a string) reads like the empty object.
MaxFieldConfidence == 2
RawObject == [invoice_number |-> "INV-1"]
RawError == [code |-> "EXTRACTION_FAILED", message |-> "Could not extract"]
RawMetadata ==
    {[processing_time_ms |-> 1200, credits |-> 1, fallback_triggered |-> FALSE],
     [processing_time_ms |-> 900, input_tokens |-> 10, output_tokens |-> 5,
      credits |-> 2, fallback_triggered |-> TRUE]}
FieldConfidences ==
    {[field |-> "$.invoice_number", score |-> 98, reason |-> "Exact match",
      page |-> 1, text |-> "Invoice # INV-1"],
     [field |-> "$.total", score |-> 60, reason |-> "Inferred", page |-> 2,
      text |-> "Total"]}
FieldConfidenceLists ==
    UNION {[1..n -> FieldConfidences] : n \in 0..MaxFieldConfidence}
RawMetas ==
    {[confidence_score |-> 94, field_confidence |-> l, issues |-> <<>>] :
        l \in FieldConfidenceLists}
    \cup {[confidence_score |-> 40, field_confidence |-> <<>>,
           issues |-> <<"low confidence">>],
          [confidence_score |-> 94, issues |-> <<>>],
          [confidence_score |-> 94, field_confidence |-> <<>>],
          [field_confidence |-> <<>>, issues |-> <<>>]}
RawVerification ==
    [status |-> "PASSED", checks_passed |-> 1, checks_failed |-> 0,
     cannot_verify_count |-> 0,
     checks_run |-> <<[type |-> "VERTICAL_SUM", status |-> "PASSED",
                       fields |-> <<"total">>, passed |-> TRUE, delta |-> 0,
                       expected |-> 10, actual |-> 10]>>]
RawBodies ==
    {[object |-> o, error |-> e] @@ md @@ mt @@ vf :
        o \in {Null, RawObject}, e \in {Null, RawError},
        md \in {Empty} \cup {"metadata" :> m : m \in RawMetadata},
        mt \in {Empty, "_meta" :> Null} \cup {"_meta" :> m : m \in RawMetas},
        vf \in {Empty, "verification" :> RawVerification}}
    \cup {Null, Empty}

\* ------------------------------------------------------------ client facade

\* Faulty variant of getEnvApiKey: falls back to a placeholder key when the
\* environment has none.
getEnvApiKeyPlaceholder(e, envKey) ==
    IF isNode(e) /\ envKey # "" THEN envKey ELSE "pk_anonymous"

\* getEnvApiKey(): envKey is process.env.PARSEFY_API_KEY, "" when unset
getEnvApiKey(e, envKey) == IF isNode(e) THEN envKey ELSE ""

\* new Parsefy(configOrApiKey).  arg is Undefined, [t |-> "string", v |-> key]
\* or [t |-> "object", v |-> config]; a config key that is unset is left out.
\* `x || y` takes y when x is undefined, "" or 0.
construct(e, envKey, arg) ==
    LET config == IF arg.t = "string" THEN [apiKey |-> arg.v]
                  ELSE IF arg.t = "object" THEN arg.v ELSE Empty
        apiKey == IF has(config, "apiKey") /\ config.apiKey # ""
                  THEN config.apiKey ELSE getEnvApiKey(e, envKey)
    IN IF apiKey = ""
       THEN Throw(ValidationError("API key is required. Provide it in the constructor or set the PARSEFY_API_KEY environment variable."))
       ELSE Ok([apiKey |-> apiKey,
                baseUrl |-> IF has(config, "baseUrl") /\ config.baseUrl # ""
                            THEN config.baseUrl ELSE DEFAULT_BASE_URL,
                timeout |-> IF has(config, "timeout") /\ config.timeout # 0
                            THEN config.timeout ELSE DEFAULT_TIMEOUT,
                maxRetries |-> MaxRetries])

\* ------------------------------------------------------------ request executor

Calls == {"c1", "c2"}

\* DEFAULT_CONFIDENCE_THRESHOLD, in hundredths
DEFAULT_CONFIDENCE_THRESHOLD == 85

Digit(d) == <<"0", "1", "2", "3", "4", "5", "6", "7", "8", "9">>[d + 1]

\* String(x) for x = h/100 with 0 <= h <= 100: the shortest decimal
numberToString(h) ==
    <<Digit(h \div 100)>>
    \o (IF h % 100 = 0 THEN <<>>
        ELSE <<".", Digit((h % 100) \div 10)>>
             \o (IF h % 10 = 0 THEN <<>> ELSE <<Digit(h % 10)>>))

\* Faulty variant of the threshold default: `||` in place of `??`, which
\* replaces an explicit 0 by the default.
thresholdOfFalsy(opts) ==
    IF has(opts, "confidenceThreshold") /\ opts.confidenceThreshold # 0
    THEN opts.confidenceThreshold
    ELSE DEFAULT_CONFIDENCE_THRESHOLD

\* confidenceThreshold ?? DEFAULT_CONFIDENCE_THRESHOLD
thresholdOf(opts) ==
    IF has(opts, "confidenceThreshold") THEN opts.confidenceThreshold
    ELSE DEFAULT_CONFIDENCE_THRESHOLD

\* The FormData extract builds: the parts appended, by name
composeFormData(preparedFile, jsonSchema, opts) ==
    [file |-> preparedFile,
     output_schema |-> jsonSchema,
     confidence_threshold |-> numberToString(thresholdOf(opts))]

NoFormData == [t |-> "none"]
NoResponse == [t |-> "none"]
Pending == [ok |-> FALSE, value |-> Undefined, error |-> NoError]

\* response.ok
isOk(status) == status >= 200 /\ status <= 299

\* error.message.includes('fetch')
includesFetch(message) ==
    message \in {"fetch failed", "Failed to fetch",
                 "NetworkError when attempting to fetch resource."}

\* error instanceof ParsefyError
isParsefyError(error) ==
    error.name \in {"ParsefyError", "APIError", "ValidationError", "ExtractionError"}

\* The catch block of makeRequest: what it throws for what it caught
classify(error) ==
    IF error.name = "AbortError"
    THEN ParsefyError("Request timed out", "TIMEOUT")
    ELSE IF isParsefyError(error) THEN error
    ELSE IF error.name = "TypeError" /\ includesFetch(error.message)
    THEN ParsefyError("Network error: Unable to connect to the Parsefy API.", "NETWORK_ERROR")
    ELSE IF error.name = "TypeError"
    THEN ParsefyError("Type error", "TYPE_ERROR")
    ELSE ParsefyError("Unexpected error", "UNKNOWN_ERROR")

\* response.json(): the decoded value, or a rejection; either way the body is
\* consumed
responseJson(resp) ==
    IF resp.body.kind = "json" THEN Ok(resp.body.json)
    ELSE Throw(PlatformError("SyntaxError", "Unexpected token"))

\* response.text() after response.json() was called: the body stream is
\* already read, so text() rejects
responseTextAfterJson(resp) ==
    Throw(PlatformError("TypeError", "Body is unusable: Body has already been read"))

\* parseErrorResponse(response)
parseErrorResponse(resp) ==
    LET j == responseJson(resp)
    IN IF j.ok THEN j.value
       ELSE LET t == responseTextAfterJson(resp)
            IN IF t.ok
               THEN [message |-> IF t.value # "" THEN t.value ELSE resp.statusText]
               ELSE [message |-> resp.statusText]

\* `API request failed with status ${response.status}`
statusMessage(status) ==
    CASE status = 429 -> "API request failed with status 429"
      [] status = 500 -> "API request failed with status 500"
      [] OTHER -> "API request failed with status"

\* makeRequest after fetch resolved with a non-ok response: what is thrown
\* inside the try block
httpError(resp) ==
    LET errorBody == parseErrorResponse(resp)
    IN IF errorBody = Null
       THEN PlatformError("TypeError", "Cannot read properties of null (reading 'message')")
       ELSE APIError(IF has(errorBody, "message") /\ errorBody.message # ""
                     THEN errorBody.message ELSE statusMessage(resp.status),
                     resp.status, errorBody)

\* Faulty variants of the success branch: one returns a result with a null
\* object and an error record where decoding or mapping failed, one throws an
\* ExtractionError for a body that carries an error record.
readSuccessSwallowsFailure(resp) ==
    LET j == responseJson(resp)
        failed(code) == Ok([object |-> Null, metadata |-> Empty,
                            error |-> [code |-> code, message |-> "Invalid response"]])
    IN IF ~j.ok THEN failed("PARSE_ERROR")
       ELSE LET r == transformResponse(j.value)
            IN IF r.ok THEN r ELSE failed("TRANSFORM_ERROR")

readSuccessThrowsExtractionError(resp) ==
    LET j == responseJson(resp)
    IN IF ~j.ok
       THEN Throw(ParsefyError("Failed to parse API response as JSON. The API may have returned an invalid response.", "PARSE_ERROR"))
       ELSE LET r == transformResponse(j.value)
            IN IF ~r.ok
               THEN Throw(ParsefyError("Failed to transform API response", "TRANSFORM_ERROR"))
               ELSE IF present(r.value, "error")
               THEN Throw(ExtractionError(r.value.error.message, r.value.error.code,
                                          r.value.metadata))
               ELSE r

\* makeRequest after fetch resolved with an ok response: the result, or what
\* is thrown inside the try block
readSuccess(resp) ==
    LET j == responseJson(resp)
    IN IF ~j.ok
       THEN Throw(ParsefyError("Failed to parse API response as JSON. The API may have returned an invalid response.", "PARSE_ERROR"))
       ELSE LET r == transformResponse(j.value)
            IN IF r.ok THEN r
               ELSE Throw(ParsefyError("Failed to transform API response", "TRANSFORM_ERROR"))

\* Faulty variants of the retry test: one gives up one attempt early, one
\* retries after any HTTP error status.
shouldRetryOneFewer(error, att, maxRetries) ==
    error.name = "APIError" /\ error.statusCode = 429 /\ att < maxRetries - 1

shouldRetryAnyStatus(error, att, maxRetries) ==
    error.name = "APIError" /\ att < maxRetries

\* The retry test of makeRequestWithRetry
shouldRetry(error, att, maxRetries) ==
    error.name = "APIError" /\ error.statusCode = 429 /\ att < maxRetries

BaseDelay == 1000
MaxDelay == 30000
\* Math.random(), in thousandths
RandomSamples == {0, 500, 999}

Min(a, b) == IF a <= b THEN a ELSE b

\* Faulty variant of getBackoffDelay: the 30 second cap is missing.
getBackoffDelayUncapped(att, random) ==
    LET exponentialDelay == BaseDelay * 2^att
        jitter == (random * exponentialDelay) \div 10000
    IN exponentialDelay + jitter

\* getBackoffDelay(attempt) for one value of Math.random(), rounded down to
\* whole milliseconds
getBackoffDelay(att, random) ==
    LET exponentialDelay == BaseDelay * 2^att
        jitter == (random * exponentialDelay) \div 10000
    IN Min(exponentialDelay + jitter, MaxDelay)

\* ------------------------------------------------------------ call inputs

SchemaSamples ==
    {Malformed,
     [kind |-> "object",
      shape |-> [a |-> [optional |-> FALSE, schema |-> [kind |-> "string"]],
                 b |-> [optional |-> TRUE, schema |-> [kind |-> "number"]]]]}

PdfName == <<"a", ".", "p", "d", "f">>
TxtName == <<"c", ".", "t", "x", "t">>

\* A sample of FileInputs(e) for whole calls
FileSamples(e) ==
    {f \in FileInputs(e) :
        \/ f.kind = "string" /\ f.name \in {PdfName, TxtName} /\ f.size = 1
           /\ (f.readable \/ (f.exists /\ f.name = PdfName))
        \/ f.kind = "string" /\ ~f.exists /\ f.name = PdfName
        \/ f.kind = "buffer" /\ f.size \in {0, MAX_FILE_SIZE}
        \/ f.kind = "file" /\ f.name \in {PdfName, TxtName} /\ f.size = 1
           /\ f.type = ""
        \/ f.kind = "blob" /\ f.size \in {1, MAX_FILE_SIZE + 1} /\ f.type = ""
        \/ f.kind = "other"}

\* ExtractOptions: file and schema, and the optional keys when given
OptionSamples(e) ==
    {[file |-> f, schema |-> s] @@ th @@ ev :
        f \in FileSamples(e), s \in SchemaSamples,
        th \in {Empty} \cup {"confidenceThreshold" :> h : h \in {0, 70, 100}},
        ev \in {Empty} \cup {"enableVerification" :> b : b \in BOOLEAN}}

StatusText(status) ==
    CASE status = 200 -> "OK"
      [] status = 429 -> "Too Many Requests"
      [] OTHER -> "Internal Server Error"

Body(kind, json, text) == [kind |-> kind, json |-> json, text |-> text]

\* Decoded JSON bodies: error objects with and without a message, null, a
\* value without properties, and wire responses
JsonSamples ==
    {Null, Empty,
     [message |-> "Rate limit exceeded", code |-> "rate_limited"],
     [code |-> "server_error"],
     [object |-> RawObject, error |-> Null,
      metadata |-> [processing_time_ms |-> 1200, credits |-> 1,
                    fallback_triggered |-> FALSE],
      _meta |-> [confidence_score |-> 94,
                 field_confidence |-> <<>>, issues |-> <<>>]],
     [object |-> Null, error |-> RawError,
      metadata |-> [processing_time_ms |-> 1200, credits |-> 1,
                    fallback_triggered |-> FALSE]],
     [object |-> RawObject, error |-> RawError,
      metadata |-> [processing_time_ms |-> 1200, credits |-> 1,
                    fallback_triggered |-> FALSE]],
     [object |-> RawObject, error |-> Null,
      metadata |-> [processing_time_ms |-> 1200, credits |-> 1,
                    fallback_triggered |-> FALSE],
      _meta |-> [confidence_score |-> 94, issues |-> <<>>]]}

TextBodies ==
    {Body("text", Undefined, "Service unavailable"), Body("text", Undefined, ""),
     Body("unreadable", Undefined, "")}

\* What fetch can resolve with: status, statusText ("" over HTTP/2) and body
Responses ==
    {[status |-> st, statusText |-> StatusText(st), body |-> Body("json", j, "")] :
        st \in {200, 429, 500}, j \in JsonSamples}
    \cup UNION {{[status |-> st, statusText |-> tx, body |-> b] :
                    tx \in {"", StatusText(st)}, b \in TextBodies} :
                 st \in {200, 429, 500}}

\* What fetch rejects with when no response is received: a TypeError, whose
\* message is the runtime's (Node.js; Chrome, Firefox and Safari)
TransportErrors ==
    IF isNode(env)
    THEN {PlatformError("TypeError", "fetch failed")}
    ELSE {PlatformError("TypeError", "Failed to fetch"),
          PlatformError("TypeError", "NetworkError when attempting to fetch resource."),
          PlatformError("TypeError", "Load failed")}

\* ------------------------------------------------------------ actions

ActiveCalls == {"c1"}

Init ==
    /\ env \in Envs
    /\ client = construct(Node20, "", [t |-> "string", v |-> "pk_test"]).value
    /\ pc = [c \in Calls |-> "idle"]
    /\ options = [c \in Calls |-> Undefined]
    /\ attempt = [c \in Calls |-> 0]
    /\ formData = [c \in Calls |-> NoFormData]
    /\ timerArmed = [c \in Calls |-> FALSE]
    /\ overdue = [c \in Calls |-> FALSE]
    /\ response = [c \in Calls |-> NoResponse]
    /\ backoffMs = [c \in Calls |-> 0]
    /\ lastError = [c \in Calls |-> NoError]
    /\ outcome = [c \in Calls |-> Pending]
    /\ nreq = [c \in Calls |-> 0]
    /\ log = [c \in Calls |-> <<>>]
    /\ sent = [c \in Calls |-> <<>>]
    /\ fnName = "none"
    /\ fnIn = Undefined
    /\ fnOut = Undefined


\* The promise returned by extract rejects with error
Reject(c, error) ==
    /\ pc' = [pc EXCEPT ![c] = "rejected"]
    /\ outcome' = [outcome EXCEPT ![c] = Throw(error)]

\* The catch block of makeRequestWithRetry: back off and retry, or rethrow
Caught(c, error) ==
    /\ lastError' = [lastError EXCEPT ![c] = error]
    /\ IF shouldRetry(error, attempt[c], client.maxRetries)
       THEN /\ \E random \in RandomSamples :
                 backoffMs' = [backoffMs EXCEPT ![c] =
                                 getBackoffDelay(attempt[c], random)]
            /\ pc' = [pc EXCEPT ![c] = "backoff"]
            /\ UNCHANGED outcome
       ELSE /\ Reject(c, error)
            /\ UNCHANGED backoffMs

\* extract(options) up to its first await: the schema is translated and
\* prepareFile is called
ExtractFrom(c, optionSet) ==
    /\ pc[c] = "idle"
    /\ \E o \in optionSet :
        /\ options' = [options EXCEPT ![c] = o]
        /\ IF zodSchemaToJsonSchema(o.schema).ok
           THEN /\ pc' = [pc EXCEPT ![c] = "preparing"]
                /\ UNCHANGED outcome
           ELSE Reject(c, zodSchemaToJsonSchema(o.schema).error)
    /\ UNCHANGED <<env, client, attempt, formData, timerArmed, overdue, response,
                   backoffMs, lastError, nreq, log, sent, pureVars>>

Extract(c) == ExtractFrom(c, OptionSamples(env))

\* prepareFile settles: extract rejects, or builds the form data
PrepareFile(c) ==
    /\ pc[c] = "preparing"
    /\ LET prepared == prepareFile(env, options[c].file)
           jsonSchema == zodSchemaToJsonSchema(options[c].schema).value
       IN IF prepared.ok
          THEN /\ formData' = [formData EXCEPT ![c] =
                                 composeFormData(prepared.value, jsonSchema, options[c])]
               /\ pc' = [pc EXCEPT ![c] = "composed"]
               /\ UNCHANGED outcome
          ELSE /\ Reject(c, prepared.error)
               /\ UNCHANGED formData
    /\ UNCHANGED <<env, client, options, attempt, timerArmed, overdue, response,
                   backoffMs, lastError, nreq, log, sent, pureVars>>

\* The arguments makeRequest hands to fetch: the URL, the method, the
\* Authorization header and the body (strings built by a template literal
\* are the tuple of their parts)
request(cl, body) ==
    [url |-> <<cl.baseUrl, "/v1/extract">>,
     method |-> "POST",
     authorization |-> <<"Bearer ", cl.apiKey>>,
     body |-> body]

\* Faulty variant of Send: parallel fan-out, a further request is issued
\* while the previous one is still awaiting its response.
SendParallel(c) ==
    /\ pc[c] \in {"composed", "backoff", "awaiting"}
    /\ nreq[c] <= client.maxRetries
    /\ attempt' = [attempt EXCEPT ![c] = IF pc[c] = "composed" THEN 0 ELSE @ + 1]
    /\ timerArmed' = [timerArmed EXCEPT ![c] = TRUE]
    /\ overdue' = [overdue EXCEPT ![c] = FALSE]
    /\ backoffMs' = [backoffMs EXCEPT ![c] = 0]
    /\ nreq' = [nreq EXCEPT ![c] = @ + 1]
    /\ response' = [response EXCEPT ![c] = NoResponse]
    /\ lastError' = [lastError EXCEPT ![c] = NoError]
    /\ sent' = [sent EXCEPT ![c] = Append(@, request(client, formData[c]))]
    /\ pc' = [pc EXCEPT ![c] = "awaiting"]
    /\ UNCHANGED <<env, client, options, formData, outcome, log, pureVars>>

\* Faulty variant of Send: the attempt counter is a field of the client, so a
\* retry of one call advances the attempt number of every call.
SendSharedCounter(c) ==
    /\ pc[c] \in {"composed", "backoff"}
    /\ attempt' = IF pc[c] = "backoff" THEN [d \in Calls |-> attempt[d] + 1]
                  ELSE attempt
    /\ timerArmed' = [timerArmed EXCEPT ![c] = TRUE]
    /\ overdue' = [overdue EXCEPT ![c] = FALSE]
    /\ backoffMs' = [backoffMs EXCEPT ![c] = 0]
    /\ nreq' = [nreq EXCEPT ![c] = @ + 1]
    /\ response' = [response EXCEPT ![c] = NoResponse]
    /\ lastError' = [lastError EXCEPT ![c] = NoError]
    /\ sent' = [sent EXCEPT ![c] = Append(@, request(client, formData[c]))]
    /\ pc' = [pc EXCEPT ![c] = "awaiting"]
    /\ UNCHANGED <<env, client, options, formData, outcome, log, pureVars>>

\* makeRequestWithRetry(formData, attempt) calls makeRequest: the timer is
\* armed and fetch is called.  From "backoff" this is the recursive call made
\* when the delay has elapsed.
Send(c) ==
    /\ pc[c] \in {"composed", "backoff"}
    /\ attempt' = [attempt EXCEPT ![c] = IF pc[c] = "backoff" THEN @ + 1 ELSE 0]
    /\ timerArmed' = [timerArmed EXCEPT ![c] = TRUE]
    /\ overdue' = [overdue EXCEPT ![c] = FALSE]
    /\ backoffMs' = [backoffMs EXCEPT ![c] = 0]
    /\ nreq' = [nreq EXCEPT ![c] = @ + 1]
    /\ response' = [response EXCEPT ![c] = NoResponse]
    /\ lastError' = [lastError EXCEPT ![c] = NoError]
    /\ sent' = [sent EXCEPT ![c] = Append(@, request(client, formData[c]))]
    /\ pc' = [pc EXCEPT ![c] = "awaiting"]
    /\ UNCHANGED <<env, client, options, formData, outcome, log, pureVars>>

\* Faulty variant of ReceiveFrom: the timer is not cleared when fetch
\* resolves, so it stays armed while the body is read and beyond.
ReceiveKeepsTimer(c, responseSet) ==
    /\ pc[c] = "awaiting"
    /\ \E r \in responseSet :
        /\ response' = [response EXCEPT ![c] = r]
        /\ log' = [log EXCEPT ![c] = Append(@, r.status)]
        /\ pc' = [pc EXCEPT ![c] = IF isOk(r.status) THEN "readingBody"
                                   ELSE "readingError"]
    /\ UNCHANGED <<env, client, options, attempt, formData, timerArmed, overdue,
                   backoffMs, lastError, outcome, nreq, sent, pureVars>>

\* fetch resolves with a response: clearTimeout, then the body is awaited
ReceiveFrom(c, responseSet) ==
    /\ pc[c] = "awaiting"
    /\ \E r \in responseSet :
        /\ response' = [response EXCEPT ![c] = r]
        /\ log' = [log EXCEPT ![c] = Append(@, r.status)]
        /\ pc' = [pc EXCEPT ![c] = IF isOk(r.status) THEN "readingBody"
                                   ELSE "readingError"]
    /\ timerArmed' = [timerArmed EXCEPT ![c] = FALSE]
    /\ UNCHANGED <<env, client, options, attempt, formData, overdue, backoffMs,
                   lastError, outcome, nreq, sent, pureVars>>

ReceiveResponse(c) == ReceiveFrom(c, Responses)

\* fetch rejects without a response (DNS failure, connection refused)
FetchRejectsFrom(c, errorSet) ==
    /\ pc[c] = "awaiting"
    /\ \E e \in errorSet : Caught(c, classify(e))
    /\ timerArmed' = [timerArmed EXCEPT ![c] = FALSE]
    /\ log' = [log EXCEPT ![c] = Append(@, 0)]
    /\ UNCHANGED <<env, client, options, attempt, formData, overdue, response,
                   nreq, sent, pureVars>>

FetchRejects(c) == FetchRejectsFrom(c, TransportErrors)

\* The configured timeout elapses during an attempt.  If the timer is still
\* armed its callback aborts the fetch, which rejects with an AbortError;
\* if it was cleared nothing happens.
TimeoutElapses(c) ==
    /\ pc[c] \in {"awaiting", "readingBody", "readingError"}
    /\ ~overdue[c]
    /\ overdue' = [overdue EXCEPT ![c] = TRUE]
    /\ IF timerArmed[c]
       THEN /\ Caught(c, classify(PlatformError("AbortError", "This operation was aborted")))
            /\ timerArmed' = [timerArmed EXCEPT ![c] = FALSE]
            /\ log' = [log EXCEPT ![c] = Append(@, 0)]
       ELSE UNCHANGED <<pc, outcome, backoffMs, lastError, timerArmed, log>>
    /\ UNCHANGED <<env, client, options, attempt, formData, response, nreq, sent, pureVars>>

\* The body of a non-ok response has been read
ReadErrorBody(c) ==
    /\ pc[c] = "readingError"
    /\ Caught(c, classify(httpError(response[c])))
    /\ UNCHANGED <<env, client, options, attempt, formData, timerArmed, overdue,
                   response, nreq, log, sent, pureVars>>

\* The body of an ok response has been read
ReadBody(c) ==
    /\ pc[c] = "readingBody"
    /\ LET r == readSuccess(response[c])
       IN IF r.ok
          THEN /\ pc' = [pc EXCEPT ![c] = "fulfilled"]
               /\ outcome' = [outcome EXCEPT ![c] = Ok(r.value)]
               /\ UNCHANGED <<backoffMs, lastError>>
          ELSE Caught(c, classify(r.error))
    /\ UNCHANGED <<env, client, options, attempt, formData, timerArmed, overdue,
                   response, nreq, log, sent, pureVars>>

Next ==
    \E c \in ActiveCalls :
        \/ Extract(c)
        \/ PrepareFile(c)
        \/ Send(c)
        \/ ReceiveResponse(c)
        \/ FetchRejects(c)
        \/ TimeoutElapses(c)
        \/ ReadErrorBody(c)
        \/ ReadBody(c)

Spec == Init /\ [][Next]_vars


\* ------------------------------------------------------------ pure functions

NotApplied == [t |-> "not applied"]

SizeInputs == FileSizes \cup {2, MAX_FILE_SIZE + 2}

\* Constructor arguments and PARSEFY_API_KEY values ("": unset; a browser
\* has no process environment)
ConfigSamples ==
    {Empty, [apiKey |-> ""], [apiKey |-> "pk_config"],
     [apiKey |-> "pk_config", timeout |-> 120000],
     [timeout |-> 0], [baseUrl |-> "http://localhost:8080"],
     [apiKey |-> "pk_config", baseUrl |-> ""]}

ConstructInputs(e) ==
    {[envKey |-> k, arg |-> a] :
        k \in IF isNode(e) THEN {"", "pk_env"} ELSE {""},
        a \in {Undefined, [t |-> "string", v |-> ""], [t |-> "string", v |-> "pk_arg"]}
              \cup {[t |-> "object", v |-> cfg] : cfg \in ConfigSamples}}

\* Arguments of getBackoffDelay: the attempt number and every value of
\* Math.random() in thousandths
MaxBackoffAttempt == 6
RandomValues == 0..999
BackoffInputs == [attempt : 0..MaxBackoffAttempt, random : RandomValues]

PureInit ==
    /\ \/ fnName = "validateFileSize" /\ env = Node20 /\ fnIn \in SizeInputs
       \/ fnName = "prepareFile" /\ env \in Envs /\ fnIn \in FileInputs(env)
       \/ fnName = "zodSchemaToJsonSchema" /\ env = Node20
          /\ fnIn \in ZodSchemas \cup {Malformed}
       \/ fnName = "transformResponse" /\ env = Node20 /\ fnIn \in RawBodies
       \/ fnName = "construct" /\ env \in Envs /\ fnIn \in ConstructInputs(env)
       \/ fnName = "getBackoffDelay" /\ env = Node20 /\ fnIn \in BackoffInputs
    /\ fnOut = NotApplied
    /\ client = IF fnName = "construct" THEN Undefined
                ELSE construct(Node20, "", [t |-> "string", v |-> "pk_test"]).value
    /\ pc = [c \in Calls |-> "idle"]
    /\ options = [c \in Calls |-> Undefined]
    /\ attempt = [c \in Calls |-> 0]
    /\ formData = [c \in Calls |-> NoFormData]
    /\ timerArmed = [c \in Calls |-> FALSE]
    /\ overdue = [c \in Calls |-> FALSE]
    /\ response = [c \in Calls |-> NoResponse]
    /\ backoffMs = [c \in Calls |-> 0]
    /\ lastError = [c \in Calls |-> NoError]
    /\ outcome = [c \in Calls |-> Pending]
    /\ nreq = [c \in Calls |-> 0]
    /\ log = [c \in Calls |-> <<>>]
    /\ sent = [c \in Calls |-> <<>>]

ApplyValidateFileSize ==
    /\ fnName = "validateFileSize" /\ fnOut = NotApplied
    /\ fnOut' = validateFileSize(fnIn)
    /\ UNCHANGED <<env, client, callVars, fnName, fnIn>>

ApplyPrepareFile ==
    /\ fnName = "prepareFile" /\ fnOut = NotApplied
    /\ fnOut' = prepareFile(env, fnIn)
    /\ UNCHANGED <<env, client, callVars, fnName, fnIn>>

ApplyZodSchemaToJsonSchema ==
    /\ fnName = "zodSchemaToJsonSchema" /\ fnOut = NotApplied
    /\ fnOut' = zodSchemaToJsonSchema(fnIn)
    /\ UNCHANGED <<env, client, callVars, fnName, fnIn>>

ApplyTransformResponse ==
    /\ fnName = "transformResponse" /\ fnOut = NotApplied
    /\ fnOut' = transformResponse(fnIn)
    /\ UNCHANGED <<env, client, callVars, fnName, fnIn>>

\* new Parsefy(arg): the client exists only when the constructor returns
ApplyConstruct ==
    /\ fnName = "construct" /\ fnOut = NotApplied
    /\ fnOut' = construct(env, fnIn.envKey, fnIn.arg)
    /\ client' = IF fnOut'.ok THEN fnOut'.value ELSE Undefined
    /\ UNCHANGED <<env, callVars, fnName, fnIn>>

ApplyGetBackoffDelay ==
    /\ fnName = "getBackoffDelay" /\ fnOut = NotApplied
    /\ fnOut' = Ok(getBackoffDelay(fnIn.attempt, fnIn.random))
    /\ UNCHANGED <<env, client, callVars, fnName, fnIn>>

PureNext ==
    \/ ApplyValidateFileSize
    \/ ApplyPrepareFile
    \/ ApplyZodSchemaToJsonSchema
    \/ ApplyTransformResponse
    \/ ApplyConstruct
    \/ ApplyGetBackoffDelay

SpecPure == PureInit /\ [][PureNext]_vars

\* A decoded body that has the wire shape: an object with a metadata block
\* and, when it has a _meta block, a field_confidence list in it
WellFormed(body) ==
    /\ body.kind = "json"
    /\ body.json # Null
    /\ present(body.json, "metadata")
    /\ present(body.json, "_meta") => has(body.json["_meta"], "field_confidence")

\* ------------------------------------------------------------ concurrent calls

\* Two extract calls on one client in Node.js 20, interleaved at their awaits
ConcOptions ==
    {o \in OptionSamples(Node20) :
        /\ o.file.kind = "buffer" /\ o.file.size = MAX_FILE_SIZE
        /\ o.schema # Malformed
        /\ ~has(o, "enableVerification")
        /\ has(o, "confidenceThreshold") => o.confidenceThreshold = 0}

ConcResponses ==
    {r \in Responses :
        /\ r.body.kind = "json"
        /\ \/ r.status = 429 /\ r.body.json = [message |-> "Rate limit exceeded",
                                                 code |-> "rate_limited"]
           \/ r.status = 500 /\ r.body.json = [code |-> "server_error"]
           \/ r.status = 200 /\ WellFormed(r.body) /\ ~present(r.body.json, "error")
                             /\ present(r.body.json, "_meta")}

ConcTransportErrors == {PlatformError("TypeError", "fetch failed")}

InitConc == Init /\ env = Node20

NextConc ==
    \E c \in Calls :
        \/ ExtractFrom(c, ConcOptions)
        \/ PrepareFile(c)
        \/ Send(c)
        \/ ReceiveFrom(c, ConcResponses)
        \/ FetchRejectsFrom(c, ConcTransportErrors)
        \/ TimeoutElapses(c)
        \/ ReadErrorBody(c)
        \/ ReadBody(c)

SpecConc == InitConc /\ [][NextConc]_vars

\* ------------------------------------------------------------ properties

\* The first n entries of the attempt log are all status 429
All429(l, n) == \A i \in 1..n : l[i] = 429

IsApi429(error) == error.name = "APIError" /\ error.statusCode = 429

\* An attempt of call c is in flight (issued, not yet ended)
InFlight(c) == pc[c] \in {"awaiting", "readingBody", "readingError"}

\* C1: a call issues at most 4 HTTP attempts, and once four attempts have each
\* received HTTP 429 and ended, the call has failed with an APIError of
\* status 429 after exactly 4 attempts.
C1_RetryCeiling ==
    \A c \in Calls :
        /\ nreq[c] <= 4
        /\ (Len(log[c]) = 4 /\ All429(log[c], 4) /\ ~InFlight(c))
            => /\ pc[c] = "rejected"
               /\ IsApi429(outcome[c].error)
               /\ nreq[c] = 4

\* C2: when the first k attempts (k in 0..3) received 429 and attempt k+1
\* received a well-formed 2xx response whose body has been read, the call is
\* fulfilled with the mapped result after exactly k+1 requests; and a 429
\* APIError reaches the caller only from the fourth attempt.
C2_SuccessAfterRetries ==
    \A c \in Calls :
        /\ \A k \in 0..3 :
              (/\ Len(log[c]) = k + 1
               /\ All429(log[c], k)
               /\ isOk(log[c][k + 1])
               /\ pc[c] # "readingBody"
               /\ WellFormed(response[c].body))
              => /\ pc[c] = "fulfilled"
                 /\ nreq[c] = k + 1
                 /\ outcome[c] = transformResponse(response[c].body.json)
        /\ (pc[c] = "rejected" /\ IsApi429(outcome[c].error)) => Len(log[c]) = 4

C2_Witness ==
    \E c \in Calls :
        /\ pc[c] = "fulfilled"
        /\ log[c] = <<429, 429, 429, 200>>
        /\ nreq[c] = 4

\* C3: every attempt that was followed by another attempt received 429; the
\* call is backing off only for a 429 APIError; and when an attempt ended
\* with any other error the call is rejected with that same error and no
\* request was issued after the failed attempt.
C3_RetryOnly429 ==
    \A c \in Calls :
        /\ \A i \in 1..(Len(log[c]) - 1) : log[c][i] = 429
        /\ pc[c] = "backoff" => IsApi429(lastError[c])
        /\ (lastError[c] # NoError /\ ~IsApi429(lastError[c]))
            => /\ pc[c] = "rejected"
               /\ outcome[c] = Throw(lastError[c])
               /\ nreq[c] = Len(log[c])

C3_Witness ==
    \E c \in Calls :
        /\ pc[c] = "rejected"
        /\ log[c] = <<429, 500>>
        /\ outcome[c].error.name = "APIError"
        /\ outcome[c].error.statusCode = 500
        /\ attempt[c] < client.maxRetries

\* C4: once the configured timeout has elapsed during an attempt, the
\* attempt has been cancelled and the call has failed with code TIMEOUT,
\* whichever phase the attempt was in.
C4_TimeoutEveryPhase ==
    \A c \in Calls :
        overdue[c] => /\ pc[c] = "rejected"
                      /\ outcome[c].error.name = "ParsefyError"
                      /\ outcome[c].error.code = "TIMEOUT"

\* C5: no request is issued before schema translation and file normalization
\* have both completed, and a call whose translation or normalization fails
\* (in particular on an empty or oversized file) is rejected with zero
\* requests issued.
C5_ValidateBeforeRequest ==
    \A c \in Calls :
        pc[c] # "idle" =>
            LET translated == zodSchemaToJsonSchema(options[c].schema)
                prepared == prepareFile(env, options[c].file)
                badSize == /\ options[c].file.kind \in {"buffer", "file", "blob"}
                           /\ \/ options[c].file.size = 0
                              \/ options[c].file.size > 10 * 1024 * 1024
            IN /\ pc[c] = "preparing" => nreq[c] = 0
               /\ nreq[c] > 0 => translated.ok /\ prepared.ok
               /\ badSize => nreq[c] = 0
               /\ (pc[c] # "preparing" /\ (~translated.ok \/ ~prepared.ok))
                   => pc[c] = "rejected" /\ nreq[c] = 0

C5_Witness ==
    \E c \in Calls :
        /\ pc[c] = "rejected"
        /\ nreq[c] = 0
        /\ zodSchemaToJsonSchema(options[c].schema).ok
        /\ options[c].file.kind = "buffer"
        /\ options[c].file.size = 0
        /\ outcome[c].error.name = "ValidationError"

\* The "required" set of a translated object schema (absent key: none)
RequiredOf(js) == IF "required" \in DOMAIN js THEN js.required ELSE {}

\* At every nesting level of schema s and its translation js, a declared field
\* is in the object's required set exactly when it was declared without
\* .optional(), and nothing else is in that set.
RECURSIVE RequiredAgrees(_, _)
RequiredAgrees(s, js) ==
    IF s.kind = "object"
    THEN /\ js.type = "object"
         /\ DOMAIN js.properties = DOMAIN s.shape
         /\ RequiredOf(js) \subseteq DOMAIN s.shape
         /\ \A n \in DOMAIN s.shape :
               /\ (n \in RequiredOf(js)) <=> ~s.shape[n].optional
               /\ RequiredAgrees(s.shape[n].schema, js.properties[n])
    ELSE IF s.kind = "array"
    THEN js.type = "array" /\ RequiredAgrees(s.element, js.items)
    ELSE TRUE

C7_SizeBoundary ==
    (fnName = "validateFileSize" /\ fnOut # NotApplied)
        => /\ fnOut.ok <=> (1 <= fnIn /\ fnIn <= 10 * 1024 * 1024)
           /\ fnIn = 0 =>
                fnOut.error = ValidationError("File is empty")
           /\ fnIn > 10 * 1024 * 1024 =>
                fnOut.error =
                    ValidationError("File size exceeds maximum limit of 10MB")

C7_Witness ==
    /\ fnName = "validateFileSize"
    /\ fnIn = 10 * 1024 * 1024
    /\ fnOut # NotApplied
    /\ fnOut.ok

\* C8: for every input kind, prepareFile either fails with a ValidationError
\* or returns a payload of size 1 byte to 10 MiB that carries a supported
\* MIME type (PDF or DOCX).
C8_NormalizedPayload ==
    (fnName = "prepareFile" /\ fnOut # NotApplied)
        => \/ ~fnOut.ok /\ fnOut.error.name = "ValidationError"
           \/ /\ fnOut.ok
              /\ fnOut.value.size > 0
              /\ fnOut.value.size <= 10 * 1024 * 1024
              /\ fnOut.value.type \in {PDF, DOCX}

\* The last dot-suffix of a name, compared case-insensitively, is .pdf or .docx
SupportedName(name) ==
    extOf(name) \in {<<".", "p", "d", "f">>, <<".", "d", "o", "c", "x">>}

UnsupportedFileType ==
    ValidationError("Unsupported file type. Supported types: .pdf, .docx")

\* C9: an input that carries a filename (a File, or an existing path where
\* paths are supported) whose last dot-suffix is not .pdf or .docx is rejected
\* with the 'Unsupported file type' ValidationError; a Blob is never rejected
\* for its extension, and is accepted exactly when its size is 1 byte to
\* 10 MiB, a size outside failing with the size ValidationError.
C9_ExtensionWhenNamed ==
    (fnName = "prepareFile" /\ fnOut # NotApplied)
        => /\ (/\ \/ fnIn.kind = "file"
                  \/ fnIn.kind = "string" /\ isNode(env) /\ fnIn.exists
               /\ ~SupportedName(fnIn.name))
              => fnOut = Throw(UnsupportedFileType)
           /\ fnIn.kind = "blob"
              => /\ fnOut # Throw(UnsupportedFileType)
                 /\ fnOut.ok <=> (1 <= fnIn.size /\ fnIn.size <= 10 * 1024 * 1024)
                 /\ ~fnOut.ok => fnOut = validateFileSize(fnIn.size)

\* C10 as stated: a result returned by extract never has both a non-null
\* object and a non-null error, whatever 2xx JSON body the service sent.
C10_NeverBoth ==
    \A c \in Calls :
        pc[c] = "fulfilled"
            => ~(present(outcome[c].value, "object")
                 /\ present(outcome[c].value, "error"))

\* C10 amended: the object and the error of a returned result are those of
\* the 2xx body, each non-null exactly when the body's is; so a result has
\* both non-null exactly when the body the service sent has both.
C10_ObjectErrorAsSent ==
    \A c \in Calls :
        pc[c] = "fulfilled"
            => LET raw == response[c].body.json
                   result == outcome[c].value
               IN /\ prop("object", result, "object") = prop("object", raw, "object")
                  /\ prop("error", result, "error") = prop("error", raw, "error")
                  /\ (present(result, "object") /\ present(result, "error"))
                        <=> (present(raw, "object") /\ present(raw, "error"))

C10_Witness ==
    \E c \in Calls :
        /\ pc[c] = "fulfilled"
        /\ present(response[c].body.json, "object")
        /\ present(response[c].body.json, "error")
        /\ outcome[c].value.object = RawObject
        /\ outcome[c].value.error = RawError

\* C11: a wire response that has its metadata block but no _meta block is
\* mapped to a result whose metadata is present with confidence score 1.0, an
\* empty field-confidence list and an empty issues list; no result lacks its
\* metadata.
C11_LegacyDefaults ==
    (fnName = "transformResponse" /\ fnOut # NotApplied)
        => /\ (fnIn # Null /\ present(fnIn, "metadata") /\ ~present(fnIn, "_meta"))
              => /\ fnOut.ok
                 /\ has(fnOut.value, "metadata")
                 /\ fnOut.value.metadata.confidenceScore = 100
                 /\ fnOut.value.metadata.fieldConfidence = <<>>
                 /\ fnOut.value.metadata.issues = <<>>
           /\ fnOut.ok => has(fnOut.value, "metadata")

C11_Witness ==
    /\ fnName = "transformResponse"
    /\ fnOut # NotApplied
    /\ fnIn # Null
    /\ present(fnIn, "metadata")
    /\ ~has(fnIn, "_meta")
    /\ fnOut.ok
    /\ fnOut.value.metadata.confidenceScore = 100
    /\ fnOut.value.metadata.fieldConfidence = <<>>

\* C12: the mapped result has a verification block exactly when the wire
\* response has one, and then it reports the wire block's status.
C12_VerificationPropagates ==
    (fnName = "transformResponse" /\ fnOut # NotApplied /\ fnOut.ok)
        => /\ has(fnOut.value, "verification") <=> has(fnIn, "verification")
           /\ has(fnIn, "verification")
              => fnOut.value.verification.status = fnIn.verification.status

\* The status of the response the latest attempt of call c received (0: none)
LastStatus(c) == IF log[c] = <<>> THEN 0 ELSE log[c][Len(log[c])]

\* The latest attempt of call c received a response and has ended
EndedWithResponse(c) == LastStatus(c) # 0 /\ pc[c] \in {"backoff", "fulfilled", "rejected"}

\* C13: an attempt that received a non-2xx response ends with an APIError
\* whose statusCode is the response status and whose response field is the
\* decoded body (the JSON value, or an object with a message for a body that
\* is not JSON), whatever the body.
C13_NonOkIsAPIError ==
    \A c \in Calls :
        (EndedWithResponse(c) /\ ~isOk(LastStatus(c)))
            => /\ lastError[c].name = "APIError"
               /\ lastError[c].statusCode = response[c].status
               /\ IF response[c].body.kind = "json"
                  THEN lastError[c].response = response[c].body.json
                  ELSE has(lastError[c].response, "message")

PARSE_ERROR ==
    ParsefyError("Failed to parse API response as JSON. The API may have returned an invalid response.", "PARSE_ERROR")

\* C14: a call whose attempt received a 2xx response with a body that is not
\* JSON is rejected with ParsefyError PARSE_ERROR, one whose decoded body does
\* not have the wire shape is rejected with ParsefyError TRANSFORM_ERROR, and
\* neither is fulfilled with a result.
C14_DecodeAndMapFailures ==
    \A c \in Calls :
        (EndedWithResponse(c) /\ isOk(LastStatus(c)))
            => /\ response[c].body.kind # "json"
                  => pc[c] = "rejected" /\ outcome[c] = Throw(PARSE_ERROR)
               /\ (response[c].body.kind = "json" /\ ~WellFormed(response[c].body))
                  => /\ pc[c] = "rejected"
                     /\ ~outcome[c].ok
                     /\ outcome[c].error.name = "ParsefyError"
                     /\ outcome[c].error.code = "TRANSFORM_ERROR"

C14_Witness ==
    \E c \in Calls :
        /\ pc[c] = "rejected"
        /\ log[c] = <<429, 200>>
        /\ response[c].body.kind = "json"
        /\ response[c].body.json # Null
        /\ ~present(response[c].body.json, "metadata")
        /\ outcome[c].error.code = "TRANSFORM_ERROR"

\* C15: a call whose attempt received a well-formed 2xx body with a non-null
\* error record is fulfilled, its result carrying that error record and the
\* mapped metadata, with no request after that attempt; and no attempt or
\* call ever fails with an ExtractionError.
C15_ExtractionErrorAsData ==
    \A c \in Calls :
        /\ lastError[c].name # "ExtractionError"
        /\ outcome[c].error.name # "ExtractionError"
        /\ (/\ EndedWithResponse(c)
            /\ isOk(LastStatus(c))
            /\ WellFormed(response[c].body)
            /\ present(response[c].body.json, "error"))
           => /\ pc[c] = "fulfilled"
              /\ outcome[c].ok
              /\ outcome[c].value.error = response[c].body.json.error
              /\ has(outcome[c].value, "metadata")
              /\ outcome[c].value.metadata.processingTimeMs
                    = response[c].body.json.metadata.processing_time_ms
              /\ outcome[c].value.metadata.credits
                    = response[c].body.json.metadata.credits
              /\ nreq[c] = Len(log[c])

C15_Witness ==
    \E c \in Calls :
        /\ pc[c] = "fulfilled"
        /\ log[c] = <<200>>
        /\ nreq[c] = 1
        /\ response[c].body.json.object = Null
        /\ outcome[c].value.error = RawError
        /\ outcome[c].value.object = Null

\* The API key given explicitly to the constructor ("": none)
ExplicitKey(arg) ==
    IF arg.t = "string" THEN arg.v
    ELSE IF arg.t = "object" /\ has(arg.v, "apiKey") THEN arg.v.apiKey
    ELSE ""

\* C16: construction takes the explicit API key when a non-empty one is given
\* (as a string or as config.apiKey), otherwise the PARSEFY_API_KEY
\* environment value; with neither it throws a ValidationError and no client
\* exists.
C16_ApiKeyResolution ==
    (fnName = "construct" /\ fnOut # NotApplied)
        => LET explicit == ExplicitKey(fnIn.arg)
           IN /\ explicit # ""
                 => fnOut.ok /\ client # Undefined /\ client.apiKey = explicit
              /\ (explicit = "" /\ fnIn.envKey # "")
                 => fnOut.ok /\ client # Undefined /\ client.apiKey = fnIn.envKey
              /\ (explicit = "" /\ fnIn.envKey = "")
                 => /\ ~fnOut.ok
                    /\ fnOut.error.name = "ValidationError"
                    /\ client = Undefined

C16_Witness ==
    /\ fnName = "construct"
    /\ fnOut # NotApplied
    /\ fnIn.arg = [t |-> "object", v |-> [apiKey |-> ""]]
    /\ fnIn.envKey = ""
    /\ ~fnOut.ok
    /\ fnOut.error.name = "ValidationError"
    /\ client = Undefined

\* The parts of the multipart payload that every request has
BaseParts == {"file", "output_schema", "confidence_threshold"}

\* C17: once a request of a call has been issued, its payload has a
\* verification-enable part (a part besides file, output_schema and
\* confidence_threshold) exactly when the call was made with
\* enableVerification true.
C17_VerificationFlagSent ==
    \A c \in Calls :
        nreq[c] > 0
            => ((DOMAIN formData[c] \ BaseParts # {})
                <=> (has(options[c], "enableVerification")
                     /\ options[c].enableVerification))

\* The decimal string of a threshold given in hundredths
DecimalString(h) ==
    CASE h = 0 -> <<"0">>
      [] h = 70 -> <<"0", ".", "7">>
      [] h = 85 -> <<"0", ".", "8", "5">>
      [] h = 100 -> <<"1">>

\* C18: once a request of a call has been issued, its payload has a
\* confidence_threshold part that is the decimal string of the caller's
\* confidenceThreshold, an explicit 0 giving '0', and '0.85' when the caller
\* gave none.
C18_ThresholdSent ==
    \A c \in Calls :
        nreq[c] > 0
            => /\ has(formData[c], "confidence_threshold")
               /\ formData[c].confidence_threshold
                    = IF has(options[c], "confidenceThreshold")
                      THEN DecimalString(options[c].confidenceThreshold)
                      ELSE <<"0", ".", "8", "5">>

C18_Witness ==
    \E c \in Calls :
        /\ nreq[c] = 2
        /\ has(options[c], "confidenceThreshold")
        /\ options[c].confidenceThreshold = 0
        /\ formData[c].confidence_threshold = <<"0">>

\* The keys the ExtractionMetadata type declares
MetadataKeys ==
    {"processing_time_ms", "credits", "fallback_triggered", "confidence_score",
     "field_confidence", "issues"}

\* C19: the metadata of a result returned by extract has the keys that
\* ExtractionMetadata declares, the processing time, credits and fallback
\* flag being those of the wire response, and its confidence_score and
\* field_confidence are defined.
C19_MetadataKeys ==
    \A c \in Calls :
        pc[c] = "fulfilled"
            => LET metadata == outcome[c].value.metadata
                   raw == response[c].body.json
               IN /\ MetadataKeys \subseteq DOMAIN metadata
                  /\ metadata.processing_time_ms = raw.metadata.processing_time_ms
                  /\ metadata.credits = raw.metadata.credits
                  /\ metadata.fallback_triggered = raw.metadata.fallback_triggered

\* The client as the constructor left it
InitialClient == construct(Node20, "", [t |-> "string", v |-> "pk_test"]).value

\* The payload extract builds from the options of call c alone
OwnPayload(c) ==
    composeFormData(prepareFile(env, options[c].file).value,
                    zodSchemaToJsonSchema(options[c].schema).value, options[c])

\* C20: with two calls interleaved on one client, the attempt number and the
\* request count of each call are those of its own history (the responses it
\* received itself), each call issues at most 4 requests, its payload is the
\* one built from its own options, and the client's apiKey, baseUrl, timeout
\* and maxRetries keep their construction-time values.
C20_CallsIndependent ==
    /\ client = InitialClient
    /\ \A c \in Calls :
          /\ attempt[c] = IF pc[c] = "awaiting" THEN Len(log[c])
                          ELSE IF log[c] = <<>> THEN 0 ELSE Len(log[c]) - 1
          /\ nreq[c] = IF pc[c] = "awaiting" THEN Len(log[c]) + 1 ELSE Len(log[c])
          /\ nreq[c] <= 4
          /\ \A i \in 1..(Len(log[c]) - 1) : log[c][i] = 429
          /\ formData[c] # NoFormData => formData[c] = OwnPayload(c)

C20_Witness ==
    /\ pc["c1"] = "rejected"
    /\ log["c1"] = <<429, 429, 429, 429>>
    /\ pc["c2"] = "fulfilled"
    /\ log["c2"] = <<429, 429, 429, 200>>
    /\ formData["c1"] # formData["c2"]
    /\ client = InitialClient

\* The latest attempt of call c ended because fetch rejected without a
\* response and without the timer having fired
EndedByTransportFailure(c) ==
    /\ log[c] # <<>>
    /\ LastStatus(c) = 0
    /\ ~overdue[c]
    /\ pc[c] \in {"backoff", "rejected"}

\* C21: an attempt that ended because fetch rejected without a response ends
\* with ParsefyError code NETWORK_ERROR, and the call is rejected with it.
C21_TransportIsNetworkError ==
    \A c \in Calls :
        EndedByTransportFailure(c)
            => /\ lastError[c].name = "ParsefyError"
               /\ lastError[c].code = "NETWORK_ERROR"
               /\ pc[c] = "rejected"
               /\ outcome[c] = Throw(lastError[c])

\* C22: a call made with a malformed schema is rejected with a
\* ValidationError, with the file not prepared and no request issued.
C22_MalformedSchemaRejected ==
    \A c \in Calls :
        (pc[c] # "idle" /\ options[c].schema = Malformed)
            => /\ pc[c] = "rejected"
               /\ outcome[c].error.name = "ValidationError"
               /\ formData[c] = NoFormData
               /\ nreq[c] = 0

\* The confidence part of a result's metadata
ConfidenceKeys == {"confidenceScore", "fieldConfidence", "issues"}

\* A decoded payload transformResponse can read: an object with a metadata
\* block whose _meta block, when present, has a field_confidence list
Readable(raw) ==
    /\ raw # Null
    /\ present(raw, "metadata")
    /\ present(raw, "_meta") => has(raw["_meta"], "field_confidence")

\* C23 as stated: for every decoded payload transformResponse returns, never
\* throws, and the metadata of its result has its confidence score, its
\* field-confidence list and its issues list.
C23_MapperNeverThrows ==
    (fnName = "transformResponse" /\ fnOut # NotApplied)
        => /\ fnOut.ok
           /\ ConfidenceKeys \subseteq DOMAIN fnOut.value.metadata

\* C23 amended: transformResponse returns exactly for the readable payloads
\* and throws a TypeError for the others; defaults are filled only when the
\* whole _meta block is absent, and then the confidence part is complete; a
\* _meta block that is present passes on what it has, a value it lacks being
\* undefined in the result.
C23_MapperTotalOnReadable ==
    (fnName = "transformResponse" /\ fnOut # NotApplied)
        => /\ fnOut.ok <=> Readable(fnIn)
           /\ ~fnOut.ok => fnOut.error.name = "TypeError"
           /\ fnOut.ok =>
                LET metadata == fnOut.value.metadata
                IN IF present(fnIn, "_meta")
                   THEN /\ has(metadata, "fieldConfidence")
                        /\ has(metadata, "confidenceScore")
                              <=> has(fnIn["_meta"], "confidence_score")
                        /\ has(metadata, "issues") <=> has(fnIn["_meta"], "issues")
                   ELSE ConfidenceKeys \subseteq DOMAIN metadata

C23_Witness ==
    /\ fnName = "transformResponse"
    /\ fnOut # NotApplied
    /\ fnIn # Null
    /\ present(fnIn, "metadata")
    /\ present(fnIn, "_meta")
    /\ ~has(fnIn["_meta"], "field_confidence")
    /\ ~fnOut.ok
    /\ fnOut.error.name = "TypeError"

\* C24: the error content of a non-2xx response is chosen in this order: the
\* decoded JSON body when the body is JSON; otherwise the body's text when it
\* is not empty, which then is the APIError message; otherwise the response's
\* status text.
C24_ErrorContentPriority ==
    \A c \in Calls :
        (EndedWithResponse(c) /\ ~isOk(LastStatus(c)))
            => LET body == response[c].body
               IN /\ (body.kind = "json" /\ body.json # Null)
                     => lastError[c].response = body.json
                  /\ (body.kind = "text" /\ body.text # "")
                     => /\ lastError[c].name = "APIError"
                        /\ lastError[c].response = [message |-> body.text]
                        /\ lastError[c].message = body.text
                  /\ (body.kind # "json" /\ ~(body.kind = "text" /\ body.text # ""))
                     => lastError[c].response = [message |-> response[c].statusText]

\* C25: getBackoffDelay(n) is at most 30000 ms, at least min(1000 * 2^n,
\* 30000), below 1000 * 2^n plus 10 percent where that is under the cap, and
\* for n = 0, 1, 2 it lies in [1000,1100), [2000,2200) and [4000,4400).
C25_BackoffDelay ==
    (fnName = "getBackoffDelay" /\ fnOut # NotApplied)
        => LET n == fnIn.attempt
               delayMs == fnOut.value
               exponential == 1000 * 2^n
           IN /\ delayMs <= 30000
              /\ delayMs >= (IF exponential <= 30000 THEN exponential ELSE 30000)
              /\ (10 * delayMs < 11 * exponential) \/ delayMs = 30000
              /\ n = 0 => (1000 <= delayMs /\ delayMs < 1100)
              /\ n = 1 => (2000 <= delayMs /\ delayMs < 2200)
              /\ n = 2 => (4000 <= delayMs /\ delayMs < 4400)

C25_Witness ==
    /\ fnName = "getBackoffDelay"
    /\ fnOut # NotApplied
    /\ fnIn.attempt = 5
    /\ fnIn.random = 999
    /\ fnOut.value = 30000


\* The request makeRequest builds for call c from the client's fields and
\* the payload extract composed from the call's options
OwnRequest(c) ==
    [url |-> <<client.baseUrl, "/v1/extract">>,
     method |-> "POST",
     authorization |-> <<"Bearer ", client.apiKey>>,
     body |-> OwnPayload(c)]

\* Call c hands a request to fetch in this step
Issues(c) == sent'[c] # sent[c]

\* C26: within one call at most one HTTP request is in flight at any time.
\* A request is issued only when none is in flight; a request after the first
\* is issued only from the backoff delay entered because the previous attempt
\* received 429 and ended with an APIError of status 429, the delay being the
\* one computed for that attempt; and every request of the call carries the
\* same URL, Authorization header and payload.  After every step all requests
\* but possibly the last have ended.
C26_SequentialAttempts ==
    [][\A c \in Calls :
          /\ Issues(c) =>
                /\ ~InFlight(c)
                /\ sent'[c] = Append(sent[c], OwnRequest(c))
                /\ sent[c] # <<>> =>
                      /\ pc[c] = "backoff"
                      /\ LastStatus(c) = 429
                      /\ IsApi429(lastError[c])
                      /\ \E random \in RandomValues :
                            backoffMs[c] = getBackoffDelay(attempt[c], random)
                      /\ sent[c][Len(sent[c])] = OwnRequest(c)
          /\ Len(sent'[c]) = Len(log'[c]) + (IF pc'[c] = "awaiting" THEN 1 ELSE 0)
          /\ \A i \in 1..(Len(sent'[c]) - 1) : log'[c][i] = 429
      ]_vars

C26_Witness ==
    \E c \in Calls :
        /\ pc[c] = "awaiting"
        /\ Len(sent[c]) = 3
        /\ log[c] = <<429, 429>>
        /\ sent[c][1] = sent[c][3]
        /\ sent[c][3].body = formData[c]
        /\ sent[c][3].authorization = <<"Bearer ", "pk_test">>


\* The keys transformResponse copies from a field-confidence record
FieldConfidenceKeys == {"field", "score", "reason", "page", "text"}

C28_TimerPerAttempt ==
    \A c \in Calls :
        /\ timerArmed[c] <=> pc[c] = "awaiting"
        /\ timerArmed[c] => ~overdue[c]
        /\ nreq[c] <= client.maxRetries + 1
        /\ (pc[c] = "rejected" /\ outcome[c].error.code = "TIMEOUT")
              => /\ overdue[c]
                 /\ log[c] # <<>>
                 /\ LastStatus(c) = 0
                 /\ Len(log[c]) = nreq[c]
                 /\ response[c] = NoResponse
                 /\ \A i \in 1..(Len(log[c]) - 1) : log[c][i] = 429

C28_Witness ==
    \E c \in Calls :
        /\ pc[c] = "rejected"
        /\ outcome[c].error.code = "TIMEOUT"
        /\ log[c] = <<429, 429, 429, 0>>
        /\ attempt[c] = 3
        /\ ~timerArmed[c]

=============================================================================
